---- MODULE Spec2Model ----
(***************************************************************************)
(* Model of routing::BicycleDirectionsEngine (bicycle_directions.cpp) and  *)
(* of the AStarRoutingResult adapter it hands to the turn generator.       *)
(*                                                                         *)
(* One Generate call is a walk of the program counter                      *)
(*   idle/done -> reconstruct -> fill -> annotate -> done                  *)
(* with the early returns of the code leading to done (degenerate result)  *)
(* and a failed CHECK / debug ASSERT leading to aborted.                   *)
(***************************************************************************)
EXTENDS Integers, Sequences, FiniteSets, TLC

VARIABLES
  debugBuild,                 \* TRUE: ASSERT is compiled in (debug build)
  graph,                      \* IRoadGraph: the ordered edge list of the road graph
  path,                       \* vector<Junction> path of the current/last call
  cancelled,                  \* my::Cancellable::IsCancelled()
  pc,                         \* position inside Generate
  outcome,                    \* "None" | "Normal" | "Degenerate" of the last returned call
  loopIdx,                    \* the loop variable i of the running loop
  times,                      \* Route::TTimes & times
  turns,                      \* Route::TTurns & turns
  routeGeometry,              \* vector<m2::PointD> & routeGeometry
  routeEdges,                 \* IRoadGraph::TEdgeVector routeEdges (local of Generate)
  m_adjacentEdges,            \* AdjacentEdgesMap m_adjacentEdges
  m_pathSegments,             \* TUnpackedPathSegments m_pathSegments
  m_featuresLoaderGuard,      \* partition of the cached loader, NoLoader when null
  builtRecords,               \* currJunction and the local adjacentEdges of each loop iteration
  annotateCalls,              \* number of MakeTurnAnnotation invocations in this call
  prevResult,                 \* <<result>> of the previous call when this call repeats its path
  loaderEvents,               \* the feature resolutions of the last loop iteration, in order
  m_routeLength,              \* AStarRoutingResult::m_routeLength of the last adapter
  lookupNode,                 \* TNodeId node of the last GetPossibleTurns call of a caller
  lookupResult,               \* <<ingoingCount and candidates>> that call left to its caller
  mState,                     \* RoutingController.mState
  mBuildState,                \* RoutingController.mBuildState
  mStartPoint,                \* RoutingController.mStartPoint, NullPoint when null
  mEndPoint,                  \* RoutingController.mEndPoint, NullPoint when null
  mContainer,                 \* RoutingController.mContainer, NoContainer when null
  mStartButton,               \* RoutingController.mStartButton != null
  buttonEnabled,              \* the enabled flag of the start button view
  mLastBuildProgress,         \* RoutingController.mLastBuildProgress
  mLastRouterType,            \* RoutingController.mLastRouterType
  uiQueue,                    \* the runnables of onRoutingEvent posted to the UI thread
  nativeBuild,                \* the build the native router is working on, 0 when none
  buildSeq,                   \* the number of nativeBuildRoute calls so far
  validBuild,                 \* the last requested build, 0 when cancelled since or none
  succeededBuild,             \* the build of the last NO_ERROR runnable that ran, 0 when none
  nullBuild,                  \* build() has been called with mStartPoint or mEndPoint null
  lastCall                    \* the last operation called and what it returned

engineVars == <<debugBuild, graph, path, cancelled, pc, outcome, loopIdx, times, turns,
                routeGeometry, routeEdges, m_adjacentEdges, m_pathSegments,
                m_featuresLoaderGuard, builtRecords, annotateCalls,
                prevResult, loaderEvents, m_routeLength>>

adapterVars == <<lookupNode, lookupResult>>

ctrlVars == <<mState, mBuildState, mStartPoint, mEndPoint, mContainer, mStartButton,
              buttonEnabled, mLastBuildProgress, mLastRouterType, uiQueue, nativeBuild,
              buildSeq, validBuild, succeededBuild, nullBuild, lastCall>>

vars == <<engineVars, adapterVars, ctrlVars>>

----------------------------------------------------------------------------
(* Bounds *)

MaxPathLen == 3
MaxRemovedEdges == 1

----------------------------------------------------------------------------
(* Data: junctions, feature identifiers, edges, the feature store *)

\* MwmSet::MwmId(): the default (not alive) partition id
NoMwm == 0

\* FeatureID::IsValid(): the partition of the identifier is alive
IsValid(fid) == fid.m_mwmId # NoMwm

\* FeatureID(): the identifier of a fake edge
InvalidFeatureId == [m_mwmId |-> NoMwm, m_index |-> 0]

FeatureId(mwm, idx) == [m_mwmId |-> mwm, m_index |-> idx]

Edge(s, e, fid) == [start |-> s, end |-> e, featureId |-> fid]

\* The edges a road graph of the model may contain, in the order the graph
\* returns them.  Edges 1 and 2 are two pieces of one road feature, edge 3
\* is a real feature with local index 0, edge 4 is a fake edge, edge 5 has
\* the local index of edge 1 in another partition, edge 7 gives junction 1
\* a second real outgoing edge, of another partition than edge 1.
EdgeUniverse ==
  << Edge(1, 2, FeatureId(1, 1)),
     Edge(2, 3, FeatureId(1, 1)),
     Edge(2, 3, FeatureId(2, 0)),
     Edge(1, 2, InvalidFeatureId),
     Edge(2, 1, FeatureId(2, 1)),
     Edge(3, 1, FeatureId(1, 2)),
     Edge(1, 3, FeatureId(2, 2)) >>

\* the junctions of the model: the end points of the edges
Junctions ==
  { EdgeUniverse[k].start : k \in 1..Len(EdgeUniverse) } \cup
  { EdgeUniverse[k].end : k \in 1..Len(EdgeUniverse) }

SelectIdx(seq, S) ==
  LET F[i \in 0..Len(seq)] ==
        IF i = 0 THEN <<>>
        ELSE IF i \in S THEN Append(F[i-1], seq[i]) ELSE F[i-1]
  IN F[Len(seq)]

\* the road graphs of the model: the universe without at most
\* MaxRemovedEdges of its edges
Graphs ==
  { SelectIdx(EdgeUniverse, (1..Len(EdgeUniverse)) \ R) :
      R \in { X \in SUBSET (1..Len(EdgeUniverse)) : Cardinality(X) <= MaxRemovedEdges } }

\* The index: what FeaturesLoaderGuard(index, mwm).GetFeatureByIndex(idx, ft)
\* loads, reduced to the attributes the engine reads from ft.
FeatureStore(mwm, idx) ==
  [ highwayClass |-> CASE mwm = 1 /\ idx = 0 -> "Trunk"
                       [] mwm = 1 /\ idx = 1 -> "Primary"
                       [] mwm = 1 /\ idx = 2 -> "Secondary"
                       [] mwm = 2 /\ idx = 0 -> "Tertiary"
                       [] mwm = 2 /\ idx = 1 -> "LivingStreet"
                       [] OTHER -> "Service",
    name         |-> <<mwm, idx>>,
    isLink       |-> (mwm = 2 /\ idx = 0),
    onRoundabout |-> (mwm = 1 /\ idx = 2) ]

\* IRoadGraph::GetOutgoingEdges / GetIngoingEdges
GetOutgoingEdges(g, junction) == SelectSeq(g, LAMBDA e : e.start = junction)
GetIngoingEdges(g, junction) == SelectSeq(g, LAMBDA e : e.end = junction)

----------------------------------------------------------------------------
(* std::map *)

EmptyMap == <<>>

\* map::insert(make_pair(k, v)): no effect when the key is present
MapInsert(m, k, v) == IF k \in DOMAIN m THEN m ELSE m @@ (k :> v)

\* map::operator[](k) = v
MapAssign(m, k, v) == (k :> v) @@ m

----------------------------------------------------------------------------
(* Records of turns_generator / loaded_path_segment *)

\* AdjacentEdges(size_t ingoingTurnsCount)
AdjacentEdges(ingoingTurnsCount) ==
  [ m_ingoingTurnsCount |-> ingoingTurnsCount,
    m_outgoingTurns |-> [candidates |-> <<>>, isCandidatesAngleValid |-> TRUE] ]

\* TurnCandidate(angle, node, highwayClass)
TurnCandidate(angle, node, highwayClass) ==
  [ angle |-> angle, node |-> node, highwayClass |-> highwayClass ]

\* LoadedPathSegment::Clear()
ClearedSegment ==
  [ m_path |-> <<>>, m_highwayClass |-> "Undefined", m_onRoundabout |-> FALSE,
    m_isLink |-> FALSE, m_weight |-> 0, m_name |-> <<>>, m_nodeId |-> 0 ]

TurnItem(index, turn) == [ m_index |-> index, m_turn |-> turn ]


\* 0-based element access, as in the source
At(seq, i) == seq[i + 1]

----------------------------------------------------------------------------
(* The feature loader cache *)

\* unique_ptr<Index::FeaturesLoaderGuard> m_featuresLoaderGuard == nullptr
NoLoader == -1

\* MwmSet::MwmId m_mwmIdFeaturesLoaderGuard: read in
\* UpdateFeatureLoaderGuardIfNeeded, assigned nowhere, so it keeps the
\* value of its default construction.
m_mwmIdFeaturesLoaderGuard == NoMwm

UpdateFeatureLoaderGuardIfNeeded_KeepFirst(guard, mwmId) ==
  IF guard = NoLoader THEN mwmId ELSE guard

\* BicycleDirectionsEngine::UpdateFeatureLoaderGuardIfNeeded: the partition
\* of the loader held after the call
UpdateFeatureLoaderGuardIfNeeded(guard, mwmId) ==
  IF guard = NoLoader \/ mwmId # m_mwmIdFeaturesLoaderGuard
  THEN mwmId
  ELSE guard

\* BicycleDirectionsEngine::GetHighwayClass: the loader after the call and
\* the class read through it
GetHighwayClass(guard, featureId) ==
  LET g == UpdateFeatureLoaderGuardIfNeeded(guard, featureId.m_mwmId)
  IN [ guard |-> g, highwayClass |-> FeatureStore(g, featureId.m_index).highwayClass ]

LoadPathGeometry_NoPath(guard, featureId, pts) ==
  IF ~IsValid(featureId)
  THEN [ guard |-> guard, segment |-> ClearedSegment ]
  ELSE LET g  == UpdateFeatureLoaderGuardIfNeeded(guard, featureId.m_mwmId)
           ft == FeatureStore(g, featureId.m_index)
       IN [ guard |-> g,
            segment |-> [ m_path |-> <<>>, m_highwayClass |-> ft.highwayClass,
                          m_onRoundabout |-> ft.onRoundabout, m_isLink |-> ft.isLink,
                          m_weight |-> 0, m_name |-> ft.name,
                          m_nodeId |-> featureId.m_index ] ]

LoadPathGeometry_StaleLoader(guard, featureId, pts) ==
  IF ~IsValid(featureId)
  THEN [ guard |-> guard, segment |-> ClearedSegment ]
  ELSE LET ft == FeatureStore(guard, featureId.m_index)
       IN [ guard |-> guard,
            segment |-> [ m_path |-> pts, m_highwayClass |-> ft.highwayClass,
                          m_onRoundabout |-> ft.onRoundabout, m_isLink |-> ft.isLink,
                          m_weight |-> 0, m_name |-> ft.name,
                          m_nodeId |-> featureId.m_index ] ]

\* BicycleDirectionsEngine::LoadPathGeometry: the loader after the call and
\* the segment written to pathSegment (in a debug build the caller never
\* passes an invalid identifier, so the ASSERT of that branch is not hit)
LoadPathGeometry(guard, featureId, pts) ==
  IF ~IsValid(featureId)
  THEN [ guard |-> guard, segment |-> ClearedSegment ]
  ELSE LET g  == UpdateFeatureLoaderGuardIfNeeded(guard, featureId.m_mwmId)
           ft == FeatureStore(g, featureId.m_index)
       IN [ guard |-> g,
            segment |-> [ m_path |-> pts, m_highwayClass |-> ft.highwayClass,
                          m_onRoundabout |-> ft.onRoundabout, m_isLink |-> ft.isLink,
                          m_weight |-> 0, m_name |-> ft.name,
                          m_nodeId |-> featureId.m_index ] ]

----------------------------------------------------------------------------
(* Pieces of Generate *)

CheckNotEqualFails_Never(pathSize) == FALSE

\* CHECK_NOT_EQUAL(pathSize, 0, ()): fails, in every build, for an empty path
CheckNotEqualFails(pathSize) == pathSize = 0

WorkaroundTurns_AtZero(pathSize) ==
  << TurnItem(0, "ReachedYourDestination") >>

\* emptyPathWorkaround, first statement, applied to the cleared turns
WorkaroundTurns(pathSize) ==
  << TurnItem(pathSize - 1, "ReachedYourDestination") >>

WorkaroundAdjacentEdges_NoIngoing(adj) == MapAssign(adj, 0, AdjacentEdges(0))

\* emptyPathWorkaround, second statement
WorkaroundAdjacentEdges(adj) == MapAssign(adj, 0, AdjacentEdges(1))

\* IDirectionsEngine::CalculateTimes: one entry per junction of the path
CalculateTimes(p) == [ i \in 1..Len(p) |-> i - 1 ]

\* IDirectionsEngine::ReconstructPath, the lookup of one loop iteration:
\* the first outgoing edge of |curr| that ends in |next|, <<>> when none
ConnectingEdge(g, curr, next) ==
  LET found == SelectSeq(GetOutgoingEdges(g, curr), LAMBDA e : e.end = next)
  IN IF found = <<>> THEN <<>> ELSE << Head(found) >>

OutgoingCandidates_NoFilter(guard, outgoingEdges) ==
  LET F[k \in 0..Len(outgoingEdges)] ==
        IF k = 0 THEN [ guard |-> guard, candidates |-> <<>> ]
        ELSE LET outFeatureId == outgoingEdges[k].featureId
                 hw == GetHighwayClass(F[k-1].guard, outFeatureId)
             IN [ guard |-> hw.guard,
                  candidates |-> Append(F[k-1].candidates,
                                   TurnCandidate(0, outFeatureId.m_index, hw.highwayClass)) ]
  IN F[Len(outgoingEdges)]

\* Generate, the loop over outgoingEdges: the loader after the loop and the
\* candidates emplaced
OutgoingCandidates(guard, outgoingEdges) ==
  LET F[k \in 0..Len(outgoingEdges)] ==
        IF k = 0 THEN [ guard |-> guard, candidates |-> <<>> ]
        ELSE LET outFeatureId == outgoingEdges[k].featureId
             IN IF ~IsValid(outFeatureId)
                THEN F[k-1]
                ELSE LET hw == GetHighwayClass(F[k-1].guard, outFeatureId)
                     IN [ guard |-> hw.guard,
                          candidates |-> Append(F[k-1].candidates,
                                           TurnCandidate(0, outFeatureId.m_index,
                                                         hw.highwayClass)) ]
  IN F[Len(outgoingEdges)]

BuildAdjacentEdges_ValidIngoingOnly(g, currJunction, candidates) ==
  LET ingoingEdges == SelectSeq(GetIngoingEdges(g, currJunction),
                                LAMBDA e : IsValid(e.featureId))
      adjacentEdges == AdjacentEdges(Len(ingoingEdges))
  IN [ adjacentEdges EXCEPT !.m_outgoingTurns =
         [ candidates |-> candidates, isCandidatesAngleValid |-> FALSE ] ]

\* Generate, the record built for junction path[i] before it is inserted
BuildAdjacentEdges(g, currJunction, candidates) ==
  LET ingoingEdges == GetIngoingEdges(g, currJunction)
      adjacentEdges == AdjacentEdges(Len(ingoingEdges))
  IN [ adjacentEdges EXCEPT !.m_outgoingTurns =
         [ candidates |-> candidates, isCandidatesAngleValid |-> FALSE ] ]

InsertAdjacentEdges_Overwrite(adj, key, rec) == MapAssign(adj, key, rec)

InsertAdjacentEdges_OnlyOrigin(adj, key, rec) ==
  IF key = 0 THEN MapInsert(adj, key, rec) ELSE adj

\* m_adjacentEdges.insert(make_pair(key, rec))
InsertAdjacentEdges(adj, key, rec) == MapInsert(adj, key, rec)

FillLoopContinues_OffByOne(i, pathSize) == i + 1 < pathSize

\* the condition i < pathSize of the filling loop
FillLoopContinues(i, pathSize) == i < pathSize

----------------------------------------------------------------------------
(* AStarRoutingResult *)

\* AStarRoutingResult::GetPossibleTurns in a build without ASSERT: the
\* values left in ingoingCount and outgoingTurns.candidates
GetPossibleTurns(adj, node) ==
  IF node \notin DOMAIN adj
  THEN [ ingoingCount |-> 0, candidates |-> <<>> ]
  ELSE [ ingoingCount |-> adj[node].m_ingoingTurnsCount,
         candidates |-> adj[node].m_outgoingTurns.candidates ]

GetPossibleTurnsAsserts_Never(adj, node) == FALSE

\* the ASSERT(false) of the missing-entry branch is reached
GetPossibleTurnsAsserts(adj, node) == node \notin DOMAIN adj

\* MakeTurnAnnotation, reduced to what it reads from the adapter and writes
\* to the outputs of Generate: the points of all segments as the geometry,
\* the final turn at its last point
Flatten(segs) ==
  LET F[k \in 0..Len(segs)] == IF k = 0 THEN <<>> ELSE F[k-1] \o segs[k].m_path
  IN F[Len(segs)]

MakeTurnAnnotationGeometry(segs) == Flatten(segs)

MakeTurnAnnotationTurns(segs) ==
  LET n == Len(Flatten(segs))
  IN << TurnItem(IF n = 0 THEN 0 ELSE n - 1, "ReachedYourDestination") >>

----------------------------------------------------------------------------
(* The resolutions of one loop iteration and the adapter's length *)

\* the condition of UpdateFeatureLoaderGuardIfNeeded: a loader is constructed
ConstructsLoader(guard, mwmId) ==
  guard = NoLoader \/ mwmId # m_mwmIdFeaturesLoaderGuard

\* the features one iteration of the filling loop resolves, in order:
\* GetHighwayClass for every outgoing edge with a valid identifier, then
\* LoadPathGeometry for the entering edge when its identifier is valid
ResolvedFeatures(outgoingEdges, inEdgeFeatureId) ==
  LET ofCandidates ==
        LET valid == SelectSeq(outgoingEdges, LAMBDA e : IsValid(e.featureId))
        IN [ k \in 1..Len(valid) |->
               [ kind |-> "candidate", featureId |-> valid[k].featureId ] ]
  IN IF IsValid(inEdgeFeatureId)
     THEN Append(ofCandidates, [ kind |-> "segment", featureId |-> inEdgeFeatureId ])
     ELSE ofCandidates

\* what UpdateFeatureLoaderGuardIfNeeded does on each of these resolutions,
\* starting from the loader |guard|
LoaderEvents(guard, resolved) ==
  LET F[k \in 0..Len(resolved)] ==
        IF k = 0 THEN <<>>
        ELSE LET before == IF k = 1 THEN guard ELSE F[k-1][k-1].used
                 mwmId  == resolved[k].featureId.m_mwmId
             IN Append(F[k-1],
                       [ kind        |-> resolved[k].kind,
                         mwmId       |-> mwmId,
                         before      |-> before,
                         constructed |-> ConstructsLoader(before, mwmId),
                         used        |-> UpdateFeatureLoaderGuardIfNeeded(before, mwmId) ])
  IN F[Len(resolved)]

\* MercatorBounds::DistanceOnEarth between the points of two junctions
DistanceOnEarth(p, q) ==
  IF p = q THEN 0
  ELSE CASE {p, q} = {1, 2} -> 3
         [] {p, q} = {2, 3} -> 4
         [] {p, q} = {1, 3} -> 5
         [] OTHER -> 6

RouteLength_StartToEnd(edges) ==
  IF edges = <<>> THEN 0
  ELSE DistanceOnEarth(edges[1].start, edges[Len(edges)].end)

\* AStarRoutingResult::AStarRoutingResult: the value left in m_routeLength
RouteLength(edges) ==
  LET F[k \in 0..Len(edges)] ==
        IF k = 0 THEN 0
        ELSE F[k-1] + DistanceOnEarth(edges[k].start, edges[k].end)
  IN F[Len(edges)]

\* AStarRoutingResult::GetPathLength
GetPathLength(routeLength) == routeLength

\* CHECK(!m_routeEdges.empty(), ()) of GetStartPoint and GetEndPoint fails
StartPointCheckFails(edges) == edges = <<>>

EarlyReturn_Never(reconstructed, edges) == FALSE

\* Generate, the two early returns after ReconstructPath: it returned false,
\* or it returned true with no edge
EarlyReturn(reconstructed, edges) == ~reconstructed \/ edges = <<>>

ClearPathSegments_Keep(segments) == segments

\* m_pathSegments.clear()
ClearPathSegments(segments) == <<>>

----------------------------------------------------------------------------
(* The state machine *)

\* no GetPossibleTurns call has been made
NoNode == -1

\* a null MapObject
NullPoint == 0

\* a null Container
NoContainer == 0

\* Framework.ROUTER_TYPE_VEHICLE and Framework.ROUTER_TYPE_PEDESTRIAN
Routers == {"VEHICLE", "PEDESTRIAN"}

\* the last call and how it ended: "true", "false", "void" or "throws"; the
\* operations that return nothing and never throw are recorded as "other"
Call(op, returns) == [ op |-> op, returns |-> returns ]

\* the fields of RoutingController after construction; nothing is posted,
\* nothing is being built
InitControllerFields ==
  /\ mState = "NONE"
  /\ mBuildState = "NONE"
  /\ mStartPoint = NullPoint
  /\ mEndPoint = NullPoint
  /\ mContainer = NoContainer
  /\ mStartButton = FALSE
  /\ buttonEnabled = FALSE
  /\ mLastBuildProgress = 0
  /\ mLastRouterType \in Routers
  /\ uiQueue = <<>>
  /\ nativeBuild = 0
  /\ buildSeq = 0
  /\ validBuild = 0
  /\ succeededBuild = 0
  /\ nullBuild = FALSE
  /\ lastCall = Call("none", "void")

Paths == UNION { [1..n -> Junctions] : n \in 0..MaxPathLen }

Init ==
  /\ debugBuild \in BOOLEAN
  /\ graph \in Graphs
  /\ path = <<>>
  /\ cancelled = FALSE
  /\ pc = "idle"
  /\ outcome = "None"
  /\ loopIdx = 0
  /\ times = <<>>
  /\ turns = <<>>
  /\ routeGeometry = <<>>
  /\ routeEdges = <<>>
  /\ m_adjacentEdges = EmptyMap
  /\ m_pathSegments = <<>>
  /\ m_featuresLoaderGuard = NoLoader
  /\ builtRecords = <<>>
  /\ annotateCalls = 0
  /\ prevResult = <<>>
  /\ loaderEvents = <<>>
  /\ m_routeLength = 0
  /\ lookupNode = NoNode
  /\ lookupResult = <<>>
  /\ InitControllerFields

\* what a returned call leaves to its caller and in the engine
CallResult ==
  [ times |-> times, turns |-> turns, routeGeometry |-> routeGeometry,
    m_adjacentEdges |-> m_adjacentEdges, m_pathSegments |-> m_pathSegments ]

\* the return of Generate through emptyPathWorkaround
ReturnDegenerate(pathSize) ==
  /\ turns' = WorkaroundTurns(pathSize)
  /\ m_adjacentEdges' = WorkaroundAdjacentEdges(EmptyMap)
  /\ pc' = "done"
  /\ outcome' = "Degenerate"

\* Generate up to the call of ReconstructPath
GenerateStart(p) ==
  /\ UNCHANGED <<adapterVars, ctrlVars>>
  /\ pc \in {"idle", "done"}
  /\ path' = p
  /\ cancelled' = FALSE
  /\ prevResult' = IF pc = "done" /\ p = path /\ ~cancelled THEN << CallResult >> ELSE <<>>
  /\ LET pathSize == Len(p) IN
     IF CheckNotEqualFails(pathSize)
     THEN /\ pc' = "aborted"
          /\ outcome' = "None"
          /\ UNCHANGED <<loopIdx, times, turns, routeGeometry, routeEdges,
                         m_adjacentEdges, m_pathSegments, builtRecords, annotateCalls,
                         loaderEvents, m_routeLength>>
     ELSE /\ routeGeometry' = <<>>
          /\ m_pathSegments' = ClearPathSegments(m_pathSegments)
          /\ loaderEvents' = <<>>
          /\ m_routeLength' = 0
          /\ routeEdges' = <<>>
          /\ builtRecords' = <<>>
          /\ annotateCalls' = 0
          /\ IF pathSize <= 1
             THEN /\ times' = <<>>
                  /\ loopIdx' = 0
                  /\ IF debugBuild
                     THEN /\ turns' = <<>>
                          /\ m_adjacentEdges' = EmptyMap
                          /\ pc' = "aborted"
                          /\ outcome' = "None"
                     ELSE ReturnDegenerate(pathSize)
             ELSE /\ times' = CalculateTimes(p)
                  /\ turns' = <<>>
                  /\ m_adjacentEdges' = EmptyMap
                  /\ loopIdx' = 1
                  /\ pc' = "reconstruct"
                  /\ outcome' = "None"
  /\ UNCHANGED <<debugBuild, graph, m_featuresLoaderGuard>>

\* the cancellation signal is raised by its owner while Generate runs; a
\* signal raised before the call is one raised before the first iteration
\* of ReconstructPath
Cancel ==
  /\ UNCHANGED <<adapterVars, ctrlVars>>
  /\ pc \in {"reconstruct", "fill", "annotate"}
  /\ ~cancelled
  /\ cancelled' = TRUE
  /\ UNCHANGED <<debugBuild, graph, path, pc, outcome, loopIdx, times, turns,
                 routeGeometry, routeEdges, m_adjacentEdges, m_pathSegments,
                 m_featuresLoaderGuard, builtRecords, annotateCalls,
                 prevResult, loaderEvents, m_routeLength>>

\* one iteration of the loop of ReconstructPath and, when ReconstructPath
\* returns, Generate up to the filling loop
ReconstructStep ==
  /\ UNCHANGED <<adapterVars, ctrlVars>>
  /\ pc = "reconstruct"
  /\ LET pathSize == Len(path)
         i        == loopIdx
         found    == ConnectingEdge(graph, At(path, i - 1), At(path, i))
         fails    == cancelled \/ found = <<>>
         edges    == IF fails THEN routeEdges ELSE routeEdges \o found
     IN
     /\ routeEdges' = edges
     /\ IF ~fails /\ i + 1 < pathSize
        THEN \* the loop of ReconstructPath goes on
             /\ loopIdx' = i + 1
             /\ UNCHANGED <<pc, outcome, turns, m_adjacentEdges>>
        ELSE \* ReconstructPath returns ~fails
             IF EarlyReturn(~fails, edges)
             THEN /\ UNCHANGED loopIdx
                  /\ IF ~fails /\ debugBuild
                     THEN \* ASSERT(false, ()) of the empty edge sequence
                          /\ pc' = "aborted"
                          /\ UNCHANGED <<outcome, turns, m_adjacentEdges>>
                     ELSE ReturnDegenerate(pathSize)
             ELSE /\ m_adjacentEdges' =
                       InsertAdjacentEdges(m_adjacentEdges, 0, AdjacentEdges(0))
                  /\ loopIdx' = 1
                  /\ pc' = "fill"
                  /\ UNCHANGED <<outcome, turns>>
  /\ UNCHANGED <<debugBuild, graph, path, cancelled, times, routeGeometry,
                 m_pathSegments, m_featuresLoaderGuard, builtRecords, annotateCalls,
                 prevResult, loaderEvents, m_routeLength>>

\* one iteration of the loop filling m_adjacentEdges and m_pathSegments
FillStep ==
  /\ UNCHANGED <<adapterVars, ctrlVars>>
  /\ pc = "fill"
  /\ LET pathSize     == Len(path)
         i            == loopIdx
         prevJunction == At(path, i - 1)
         currJunction == At(path, i)
     IN
     IF debugBuild /\ Len(routeEdges) # pathSize - 1
     THEN \* ASSERT_EQUAL(routeEdges.size(), pathSize - 1, ())
          /\ pc' = "aborted"
          /\ UNCHANGED <<loopIdx, m_adjacentEdges, m_pathSegments,
                         m_featuresLoaderGuard, builtRecords, loaderEvents>>
     ELSE LET inEdgeFeatureId == At(routeEdges, i - 1).featureId
              out == OutgoingCandidates(m_featuresLoaderGuard,
                                        GetOutgoingEdges(graph, currJunction))
              adjacentEdges == BuildAdjacentEdges(graph, currJunction, out.candidates)
              loaded == LoadPathGeometry(out.guard, inEdgeFeatureId,
                                         <<prevJunction, currJunction>>)
          IN /\ m_featuresLoaderGuard' = loaded.guard
             /\ loaderEvents' =
                  LoaderEvents(m_featuresLoaderGuard,
                               ResolvedFeatures(GetOutgoingEdges(graph, currJunction),
                                                inEdgeFeatureId))
             /\ builtRecords' = Append(builtRecords, [ junction |-> currJunction,
                                                       record |-> adjacentEdges ])
             /\ m_adjacentEdges' =
                  InsertAdjacentEdges(m_adjacentEdges, inEdgeFeatureId.m_index, adjacentEdges)
             /\ m_pathSegments' = Append(m_pathSegments, loaded.segment)
             /\ IF FillLoopContinues(i + 1, pathSize)
                THEN /\ loopIdx' = i + 1
                     /\ pc' = "fill"
                ELSE /\ loopIdx' = i + 1
                     /\ pc' = "annotate"
  /\ UNCHANGED <<debugBuild, graph, path, cancelled, outcome, times, turns,
                 routeGeometry, routeEdges, annotateCalls, prevResult, m_routeLength>>

\* the construction of the adapter and the call of MakeTurnAnnotation
Annotate ==
  /\ UNCHANGED <<adapterVars, ctrlVars>>
  /\ pc = "annotate"
  /\ m_routeLength' = RouteLength(routeEdges)
  /\ IF \/ StartPointCheckFails(routeEdges)
        \/ /\ debugBuild
           /\ \E k \in 1..Len(m_pathSegments) :
                GetPossibleTurnsAsserts(m_adjacentEdges, m_pathSegments[k].m_nodeId)
     THEN /\ pc' = "aborted"
          /\ UNCHANGED <<outcome, turns, routeGeometry>>
     ELSE /\ routeGeometry' = MakeTurnAnnotationGeometry(m_pathSegments)
          /\ turns' = MakeTurnAnnotationTurns(m_pathSegments)
          /\ pc' = "done"
          /\ outcome' = "Normal"
  /\ annotateCalls' = annotateCalls + 1
  /\ UNCHANGED <<debugBuild, graph, path, cancelled, loopIdx, times, routeEdges,
                 m_adjacentEdges, m_pathSegments, m_featuresLoaderGuard, builtRecords,
                 prevResult, loaderEvents>>

Next ==
  \/ \E p \in Paths : GenerateStart(p)
  \/ Cancel
  \/ ReconstructStep
  \/ FillStep
  \/ Annotate

Spec == Init /\ [][Next]_vars

----------------------------------------------------------------------------
(* Properties of Generate *)

Returned == pc = "done"

ReturnedNormal == pc = "done" /\ outcome = "Normal"

ReachedDestinationAt(index) == << TurnItem(index, "ReachedYourDestination") >>

\* the adjacency table holds exactly one record, at key 0, with one ingoing
\* edge and no candidates
OnlyOriginWithOneIngoing ==
  /\ DOMAIN m_adjacentEdges = {0}
  /\ m_adjacentEdges[0].m_ingoingTurnsCount = 1
  /\ m_adjacentEdges[0].m_outgoingTurns.candidates = <<>>

\* C1: in a build without debug assertions, Generate on a path of exactly
\* one junction returns one ReachedYourDestination turn at index 0, an
\* adjacency table of exactly one record, at key 0, with ingoing count 1,
\* and no segment.
C1_SingleJunctionDegenerate ==
  (Returned /\ Len(path) = 1 /\ ~debugBuild) =>
     /\ turns = ReachedDestinationAt(0)
     /\ OnlyOriginWithOneIngoing
     /\ m_pathSegments = <<>>

C1_Witness ==
  Returned /\ Len(path) = 1 /\ ~debugBuild /\ outcome = "Degenerate"

\* reconstruction did not produce the edge of every consecutive pair: it
\* stopped early (cancellation) or some pair has no connecting edge
ReconstructionFailed ==
  \/ Len(routeEdges) # Len(path) - 1
  \/ \E i \in 1..(Len(path) - 1) : ConnectingEdge(graph, path[i], path[i+1]) = <<>>

\* C2: for a path of N >= 2 junctions, when edge reconstruction fails
\* (cancellation, or no connecting edge for a consecutive pair) Generate
\* returns one ReachedYourDestination turn at index N-1, the adjacency table
\* {0 -> ingoing count 1, no candidates} and an empty segment list.
C2_ReconstructionFailureDegenerate ==
  (Returned /\ Len(path) >= 2 /\ ReconstructionFailed) =>
     /\ turns = ReachedDestinationAt(Len(path) - 1)
     /\ OnlyOriginWithOneIngoing
     /\ m_pathSegments = <<>>

\* cancellation after the first edge of a three-junction path was found
C2_Witness ==
  Returned /\ Len(path) = 3 /\ Len(routeEdges) = 1 /\ cancelled

C4_DegeneratePublishesNothing ==
  (Returned /\ outcome = "Degenerate") =>
     /\ times = <<>>
     /\ routeGeometry = <<>>

\* every traversed edge has its key in the adjacency table
AllEdgeKeysPresent ==
  \A k \in 1..Len(routeEdges) : routeEdges[k].featureId.m_index \in DOMAIN m_adjacentEdges

\* C5: MakeTurnAnnotation is invoked zero times in a call that ends
\* Degenerate and exactly once in a call that ends Normal, and only after
\* the record and the segment of every junction 1..N-1 have been built.
C5_AnnotationOnlyAfterFilling ==
  /\ annotateCalls <= 1
  /\ pc \in {"reconstruct", "fill", "annotate"} => annotateCalls = 0
  /\ (Returned /\ outcome = "Degenerate") => annotateCalls = 0
  /\ ReturnedNormal => annotateCalls = 1
  /\ (pc = "annotate" \/ (Returned /\ annotateCalls >= 1)) =>
       /\ Len(builtRecords) = Len(path) - 1
       /\ Len(m_pathSegments) = Len(path) - 1
       /\ 0 \in DOMAIN m_adjacentEdges
       /\ AllEdgeKeysPresent

C5_Witness ==
  ReturnedNormal /\ Len(path) = 3 /\ annotateCalls = 1

\* segment |seg| is the slot of the traversed edge |e|
IsSlotOf(seg, e) ==
  IF IsValid(e.featureId)
  THEN /\ seg.m_nodeId = e.featureId.m_index
       /\ seg.m_path = << e.start, e.end >>
  ELSE seg = ClearedSegment

\* C6: after a Normal call on N junctions the segment list has exactly
\* edges.size() = N-1 entries and segment k is the slot of the edge from
\* junction k to junction k+1, valid feature identifier or not.
C6_SegmentPerEdge ==
  ReturnedNormal =>
     /\ Len(routeEdges) = Len(path) - 1
     /\ Len(m_pathSegments) = Len(routeEdges)
     /\ \A k \in 1..Len(routeEdges) :
          /\ routeEdges[k].start = path[k]
          /\ routeEdges[k].end = path[k+1]
          /\ IsSlotOf(m_pathSegments[k], routeEdges[k])

\* a Normal call over a fake edge followed by a real one
C6_Witness ==
  /\ ReturnedNormal
  /\ Len(routeEdges) = 2
  /\ ~IsValid(routeEdges[1].featureId)
  /\ IsValid(routeEdges[2].featureId)

\* C7, as claimed: after a Normal call the adjacency table has the entry of
\* key 0 plus exactly one entry per traversed edge, edges.size()+1 entries.
C7_OneEntryPerEdge ==
  ReturnedNormal =>
     /\ 0 \in DOMAIN m_adjacentEdges
     /\ AllEdgeKeysPresent
     /\ Cardinality(DOMAIN m_adjacentEdges) = Len(routeEdges) + 1

\* C8, as claimed: after a Normal call, the lookup by the feature index of
\* the edge entering junction i returns the ingoing count and the candidates
\* of the record built for junction i.
C8_LookupReturnsOwnRecord ==
  ReturnedNormal =>
     \A i \in 1..(Len(path) - 1) :
        GetPossibleTurns(m_adjacentEdges, routeEdges[i].featureId.m_index) =
          [ ingoingCount |-> builtRecords[i].record.m_ingoingTurnsCount,
            candidates |-> builtRecords[i].record.m_outgoingTurns.candidates ]

\* C9: after every call that returns the adjacency table has an entry for
\* key 0; after a Normal call it is the origin record, with zero ingoing
\* edges and no candidates, whatever the feature indices of the edges.
C9_OriginEntry ==
  Returned =>
     /\ 0 \in DOMAIN m_adjacentEdges
     /\ outcome = "Normal" =>
          /\ m_adjacentEdges[0].m_ingoingTurnsCount = 0
          /\ m_adjacentEdges[0].m_outgoingTurns.candidates = <<>>

\* a Normal call over an edge of feature index 0 whose junction record is
\* not the origin record
C9_Witness ==
  /\ ReturnedNormal
  /\ \E k \in 1..Len(routeEdges) :
       /\ routeEdges[k].featureId.m_index = 0
       /\ builtRecords[k].record.m_ingoingTurnsCount > 0

\* the outgoing edges of |junction| with a valid feature identifier, in the
\* order of the graph
ValidOutgoingEdges(junction) ==
  SelectSeq(GetOutgoingEdges(graph, junction), LAMBDA e : IsValid(e.featureId))

\* C10: the candidates of the record built for junction i are, in graph
\* order, one entry per outgoing edge with a valid feature identifier,
\* carrying that edge's feature index and road class; fake edges contribute
\* no entry; the angle-valid flag of the record is false.
C10_CandidatesAreValidOutgoingEdges ==
  \A i \in 1..Len(builtRecords) :
     LET rec   == builtRecords[i].record
         valid == ValidOutgoingEdges(builtRecords[i].junction)
     IN /\ rec.m_outgoingTurns.isCandidatesAngleValid = FALSE
        /\ Len(rec.m_outgoingTurns.candidates) = Len(valid)
        /\ \A k \in 1..Len(valid) :
             /\ rec.m_outgoingTurns.candidates[k].node = valid[k].featureId.m_index
             /\ rec.m_outgoingTurns.candidates[k].highwayClass =
                  FeatureStore(valid[k].featureId.m_mwmId,
                               valid[k].featureId.m_index).highwayClass

\* a record built for a junction with one fake and two real outgoing edges
C10_Witness ==
  \E i \in 1..Len(builtRecords) :
     /\ Len(GetOutgoingEdges(graph, builtRecords[i].junction)) = 3
     /\ Len(ValidOutgoingEdges(builtRecords[i].junction)) = 2
     /\ Len(builtRecords[i].record.m_outgoingTurns.candidates) = 2

\* the keys the traversed edges of this call register
EdgeKeys == { routeEdges[k].featureId.m_index : k \in 1..Len(routeEdges) }

\* C11: the result of a call depends only on the inputs of that call: a
\* call that repeats the path of the previous call, neither of them
\* cancelled, returns the result of the previous call, and after every
\* returned call the adjacency table and the segment list hold entries of
\* this call's path only (key 0 alone and no segment after a Degenerate
\* call).
C11_ResultDependsOnInputsOnly ==
  Returned =>
     /\ (prevResult # <<>> /\ ~cancelled) => prevResult[1] = CallResult
     /\ outcome = "Normal" =>
          /\ DOMAIN m_adjacentEdges = {0} \cup EdgeKeys
          /\ Len(m_pathSegments) = Len(path) - 1
          /\ Len(times) = Len(path)
     /\ outcome = "Degenerate" =>
          /\ DOMAIN m_adjacentEdges = {0}
          /\ m_pathSegments = <<>>
          /\ routeGeometry = <<>>

\* a Normal call that repeats the path of the previous call
C11_Witness ==
  /\ ReturnedNormal
  /\ prevResult # <<>>
  /\ ~cancelled
  /\ Len(m_pathSegments) = 2

\* C12, as claimed: a resolution constructs a loader only when no loader
\* exists or the partition of the requested feature differs from the
\* partition of the cached loader.
C12_LoaderConstructedOnlyOnChange ==
  \A k \in 1..Len(loaderEvents) :
     loaderEvents[k].constructed <=>
        (loaderEvents[k].before = NoLoader \/ loaderEvents[k].before # loaderEvents[k].mwmId)

\* C14: the loader a resolution reads the feature through is the loader of
\* the partition of the requested feature identifier.
C14_LoaderOfRequestedPartition ==
  \A k \in 1..Len(loaderEvents) : loaderEvents[k].used = loaderEvents[k].mwmId

\* a resolution that finds the loader of another partition cached
C14_Witness ==
  \E k \in 1..Len(loaderEvents) :
     /\ loaderEvents[k].before # NoLoader
     /\ loaderEvents[k].before # loaderEvents[k].mwmId

\* C15: in the result handed to MakeTurnAnnotation, the node identifier of
\* every segment built from an edge with a valid feature identifier has an
\* entry in the adjacency table.
C15_SegmentNodesHaveEntries ==
  (pc = "annotate" \/ ReturnedNormal) =>
     \A k \in 1..Len(m_pathSegments) :
        IsValid(routeEdges[k].featureId) =>
           ~GetPossibleTurnsAsserts(m_adjacentEdges, m_pathSegments[k].m_nodeId)

\* the adapter is about to be handed over with two real edges of
\* different feature indices
C15_Witness ==
  /\ pc = "annotate"
  /\ Len(m_pathSegments) = 2
  /\ IsValid(routeEdges[1].featureId)
  /\ IsValid(routeEdges[2].featureId)
  /\ m_pathSegments[1].m_nodeId # m_pathSegments[2].m_nodeId

\* the number of edges of the graph that end in |junction|, fake or not
RawIngoingCount(junction) ==
  Cardinality({ k \in 1..Len(graph) : graph[k].end = junction })

\* C16: the ingoing count of the record built for a junction is the raw
\* number of ingoing edges of that junction, fake edges included.
C16_IngoingCountIsRaw ==
  \A i \in 1..Len(builtRecords) :
     builtRecords[i].record.m_ingoingTurnsCount = RawIngoingCount(builtRecords[i].junction)

\* a record built for a junction that a fake edge and a real edge enter
C16_Witness ==
  \E i \in 1..Len(builtRecords) :
     /\ \E k \in 1..Len(graph) :
          graph[k].end = builtRecords[i].junction /\ ~IsValid(graph[k].featureId)
     /\ builtRecords[i].record.m_ingoingTurnsCount = 2

\* C17: the segment of a traversed edge with a valid feature identifier has
\* the two junction points as geometry, the feature index as node
\* identifier and the class, name, link and roundabout flags of the
\* feature; the segment of an edge with an invalid identifier is cleared
\* and no feature is resolved for it.
C17_SegmentAttributes ==
  (pc \in {"fill", "annotate", "done"}) =>
     /\ \A k \in 1..Len(m_pathSegments) :
          LET fid == routeEdges[k].featureId
              seg == m_pathSegments[k]
              ft  == FeatureStore(fid.m_mwmId, fid.m_index)
          IN IF IsValid(fid)
             THEN /\ seg.m_path = << path[k], path[k+1] >>
                  /\ seg.m_nodeId = fid.m_index
                  /\ seg.m_highwayClass = ft.highwayClass
                  /\ seg.m_name = ft.name
                  /\ seg.m_isLink = ft.isLink
                  /\ seg.m_onRoundabout = ft.onRoundabout
             ELSE seg = ClearedSegment
     /\ Len(m_pathSegments) >= 1 =>
          ((\E k \in 1..Len(loaderEvents) : loaderEvents[k].kind = "segment")
             <=> IsValid(routeEdges[Len(m_pathSegments)].featureId))

\* a Normal call over a real edge of partition 1 and then a fake edge: the
\* first segment carries the attributes of feature (1, 2), resolved after a
\* candidate of partition 2 at the same junction, the second segment is
\* cleared and the last iteration resolved no feature for a segment
C17_Witness ==
  /\ ReturnedNormal
  /\ Len(m_pathSegments) = 2
  /\ routeEdges[1].featureId = FeatureId(1, 2)
  /\ m_pathSegments[1].m_highwayClass = "Secondary"
  /\ m_pathSegments[1].m_onRoundabout
  /\ GetOutgoingEdges(graph, path[2])[Len(GetOutgoingEdges(graph, path[2]))].featureId.m_mwmId = 2
  /\ m_pathSegments[2] = ClearedSegment
  /\ \A k \in 1..Len(loaderEvents) : loaderEvents[k].kind # "segment"

\* the sum over the traversed edges of the distance between the edge's own
\* end points
SumOfEdgeLengths(edges, n) ==
  LET S[k \in 0..n] ==
        IF k = 0 THEN 0
        ELSE DistanceOnEarth(edges[n - k + 1].start, edges[n - k + 1].end) + S[k-1]
  IN S[n]

\* C18: the path length of the adapter is the sum over the traversed edges
\* of the distance between each edge's start and end junction, and
\* GetPathLength returns that value at every call.
C18_PathLengthIsSumOverEdges ==
  (annotateCalls >= 1 /\ pc \in {"done", "aborted"} /\ routeEdges # <<>>) =>
     GetPathLength(m_routeLength) = SumOfEdgeLengths(routeEdges, Len(routeEdges))

\* an adapter over two edges whose lengths add up to more than the
\* distance between the ends of the route
C18_Witness ==
  /\ ReturnedNormal
  /\ Len(routeEdges) = 2
  /\ m_routeLength = 7
  /\ DistanceOnEarth(routeEdges[1].start, routeEdges[2].end) = 5

\* C19: Generate goes past its early returns, and so constructs the
\* adapter, only with a non-empty edge sequence: the CHECK of GetStartPoint
\* and GetEndPoint cannot fail on an adapter handed to MakeTurnAnnotation.
C19_AdapterHasEdges ==
  (pc \in {"fill", "annotate"} \/ ReturnedNormal) => ~StartPointCheckFails(routeEdges)

C19_Witness ==
  pc = "annotate" /\ Len(routeEdges) = 2 /\ ~debugBuild

----------------------------------------------------------------------------
(* The adapter on its own: GetPossibleTurns over any adjacency table *)

MaxNode == 2

\* the records of the tables: the origin record, a record with one ingoing
\* edge and no candidate, a record with two ingoing edges and one candidate
AdapterRecords ==
  { AdjacentEdges(0),
    AdjacentEdges(1),
    [ m_ingoingTurnsCount |-> 2,
      m_outgoingTurns |-> [ candidates |-> << TurnCandidate(0, 1, "Primary") >>,
                            isCandidatesAngleValid |-> FALSE ] ] }

\* the adjacency tables an adapter is constructed over
AdapterTables ==
  UNION { [ K -> AdapterRecords ] : K \in SUBSET (0..MaxNode) }

InitAdapter ==
  /\ debugBuild \in BOOLEAN
  /\ graph = EdgeUniverse
  /\ path = <<>>
  /\ cancelled = FALSE
  /\ pc = "adapter"
  /\ outcome = "None"
  /\ loopIdx = 0
  /\ times = <<>>
  /\ turns = <<>>
  /\ routeGeometry = <<>>
  /\ routeEdges = <<>>
  /\ m_adjacentEdges \in AdapterTables
  /\ m_pathSegments = <<>>
  /\ m_featuresLoaderGuard = NoLoader
  /\ builtRecords = <<>>
  /\ annotateCalls = 0
  /\ prevResult = <<>>
  /\ loaderEvents = <<>>
  /\ m_routeLength = 0
  /\ lookupNode = NoNode
  /\ lookupResult = <<>>
  /\ InitControllerFields

\* a caller of the adapter calls GetPossibleTurns(node, ...)
GetPossibleTurnsCall(node) ==
  /\ pc = "adapter"
  /\ lookupNode' = node
  /\ IF debugBuild /\ GetPossibleTurnsAsserts(m_adjacentEdges, node)
     THEN /\ pc' = "aborted"
          /\ UNCHANGED lookupResult
     ELSE /\ lookupResult' = << GetPossibleTurns(m_adjacentEdges, node) >>
          /\ UNCHANGED pc
  /\ UNCHANGED <<debugBuild, graph, path, cancelled, outcome, loopIdx, times, turns,
                 routeGeometry, routeEdges, m_adjacentEdges, m_pathSegments,
                 m_featuresLoaderGuard, builtRecords, annotateCalls,
                 prevResult, loaderEvents, m_routeLength>>
  /\ UNCHANGED ctrlVars

NextAdapter == \E node \in 0..(MaxNode + 1) : GetPossibleTurnsCall(node)

SpecAdapter == InitAdapter /\ [][NextAdapter]_vars

\* what the lookup of a present key with zero ingoing edges and no
\* candidates leaves to the caller
ZeroRecordResult == << [ ingoingCount |-> 0, candidates |-> <<>> ] >>

LookedUpAbsentKey == lookupNode # NoNode /\ lookupNode \notin DOMAIN m_adjacentEdges

\* C13, as claimed: the lookup of an absent key gives the caller a failure
\* indication that differs from the result of the lookup of a present key
\* whose record has zero ingoing edges and no candidates.
C13_AbsentKeyDistinguishable ==
  LookedUpAbsentKey => (pc = "aborted" \/ lookupResult # ZeroRecordResult)

\* C13, amended: the lookup of an absent key aborts at ASSERT(false) in a
\* debug build; in a build without debug assertions it returns ingoing
\* count 0 and no candidates, which is also what the lookup of a present
\* key with a zero record returns.
C13_AbsentKeyOutcome ==
  /\ LookedUpAbsentKey =>
       IF debugBuild
       THEN pc = "aborted"
       ELSE pc = "adapter" /\ lookupResult = ZeroRecordResult
  /\ ( /\ lookupNode \in DOMAIN m_adjacentEdges
       /\ m_adjacentEdges[lookupNode].m_ingoingTurnsCount = 0
       /\ m_adjacentEdges[lookupNode].m_outgoingTurns.candidates = <<>> )
       => (pc = "adapter" /\ lookupResult = ZeroRecordResult)

\* a release build looked up an absent key in a table that also has a
\* zero record
C13_Witness ==
  /\ ~debugBuild
  /\ LookedUpAbsentKey
  /\ \E k \in DOMAIN m_adjacentEdges : m_adjacentEdges[k] = AdjacentEdges(0)

----------------------------------------------------------------------------
(* RoutingController *)

MaxBuilds == 2
MaxQueue == 1

\* the map objects a user can pick
Points == {1, 2}

\* LocationHelper.INSTANCE.getMyPosition(): null or a map object, which may
\* equal an object the user picks
MyPositions == {NullPoint, 1}

Containers == {1, 2}

\* MapObject.same(one, another): both null, or both non-null and equal
Same(one, another) == one = another

InitController ==
  /\ debugBuild = FALSE
  /\ graph = EdgeUniverse
  /\ path = <<>>
  /\ cancelled = FALSE
  /\ pc = "idle"
  /\ outcome = "None"
  /\ loopIdx = 0
  /\ times = <<>>
  /\ turns = <<>>
  /\ routeGeometry = <<>>
  /\ routeEdges = <<>>
  /\ m_adjacentEdges = EmptyMap
  /\ m_pathSegments = <<>>
  /\ m_featuresLoaderGuard = NoLoader
  /\ builtRecords = <<>>
  /\ annotateCalls = 0
  /\ prevResult = <<>>
  /\ loaderEvents = <<>>
  /\ m_routeLength = 0
  /\ lookupNode = NoNode
  /\ lookupResult = <<>>
  /\ InitControllerFields

\* updateStartButton: the enabled flag of the button after the call
updateStartButton(button, enabled, state, buildState) ==
  IF ~button THEN enabled ELSE (state = "PREPARE" /\ buildState = "BUILT")

\* onRoutingEvent: UiThread.run posts the runnable
Post(queue, resultCode, build) ==
  Append(queue, [ resultCode |-> resultCode, build |-> build ])

\* build(), called with the fields mState', mStartPoint', mEndPoint' and
\* mStartButton' already set by the caller
build ==
  /\ buildSeq < MaxBuilds
  /\ mLastBuildProgress' = 0
  /\ mBuildState' = "BUILDING"
  /\ buttonEnabled' = updateStartButton(mStartButton', buttonEnabled, mState', "BUILDING")
  /\ buildSeq' = buildSeq + 1
  /\ nativeBuild' = buildSeq + 1
  /\ validBuild' = buildSeq + 1
  /\ nullBuild' = (nullBuild \/ mStartPoint' = NullPoint \/ mEndPoint' = NullPoint)

\* what a call leaves unchanged when it does not reach build()
NoBuild ==
  UNCHANGED <<mLastBuildProgress, mBuildState, buttonEnabled, buildSeq, nativeBuild,
              validBuild, nullBuild>>

\* prepare(endPoint) with the routing disclaimer accepted (when it is not,
\* prepare shows the dialog and changes no field)
prepare(endPoint, locationOn, my, bestRouter) ==
  /\ lastCall' = Call("other", "void")
  /\ UNCHANGED <<mContainer, mStartButton, succeededBuild>>
  /\ IF ~locationOn \/ my = NullPoint
     THEN /\ Len(uiQueue) < MaxQueue
          /\ uiQueue' = Post(uiQueue, "NO_POSITION", 0)
          /\ mStartPoint' = IF locationOn THEN my ELSE mStartPoint
          /\ UNCHANGED <<mEndPoint, mState, mLastRouterType>>
          /\ NoBuild
     ELSE /\ mStartPoint' = my
          /\ mEndPoint' = endPoint
          /\ mState' = "PREPARE"
          /\ mLastRouterType' = IF endPoint # NullPoint THEN bestRouter ELSE mLastRouterType
          /\ UNCHANGED uiQueue
          /\ IF endPoint = NullPoint
             THEN /\ buttonEnabled' =
                       updateStartButton(mStartButton, buttonEnabled, "PREPARE", mBuildState)
                  /\ UNCHANGED <<mLastBuildProgress, mBuildState, buildSeq, nativeBuild,
                                 validBuild, nullBuild>>
             ELSE build
  /\ UNCHANGED <<engineVars, adapterVars>>

\* start()
start ==
  /\ lastCall' = Call("other", "void")
  /\ mState' = "NAVIGATION"
  /\ UNCHANGED <<mBuildState, mStartPoint, mEndPoint, mContainer, mStartButton,
                 buttonEnabled, mLastBuildProgress, mLastRouterType, uiQueue, nativeBuild,
                 buildSeq, validBuild, succeededBuild,
                 nullBuild>>
  /\ UNCHANGED <<engineVars, adapterVars>>

\* isPlanning()
isPlanning(state) == state = "PREPARE"

isNavigating_Never(state) == FALSE

\* isNavigating()
isNavigating(state) == state = "NAVIGATION"

\* cancel(), with cancelInternal(); the dialog buttons of a routing error
\* call it as well
cancel ==
  /\ IF isPlanning(mState) \/ isNavigating(mState)
     THEN /\ mStartPoint' = NullPoint
          /\ mEndPoint' = NullPoint
          /\ mState' = "NONE"
          /\ mBuildState' = "NONE"
          /\ nativeBuild' = 0
          /\ validBuild' = 0
          /\ lastCall' = Call("cancel", "true")
     ELSE /\ UNCHANGED <<mStartPoint, mEndPoint, mState, mBuildState, nativeBuild,
                         validBuild>>
          /\ lastCall' = Call("cancel", "false")
  /\ UNCHANGED <<mContainer, mStartButton, buttonEnabled, mLastBuildProgress,
                 mLastRouterType, uiQueue, buildSeq, succeededBuild, nullBuild>>
  /\ UNCHANGED <<engineVars, adapterVars>>

\* the fields a point setter leaves: the two points, whether
\* checkAndBuildRoute reached build(), and the value returned
PointsResult(startPoint, endPoint, builds, returns) ==
  [ mStartPoint |-> startPoint, mEndPoint |-> endPoint, builds |-> builds,
    returns |-> returns ]

checkAndBuildRoute_EitherPoint(startPoint, endPoint) ==
  startPoint # NullPoint \/ endPoint # NullPoint

\* checkAndBuildRoute: build() is called
checkAndBuildRoute(startPoint, endPoint) ==
  startPoint # NullPoint /\ endPoint # NullPoint

setStartPointResult_NoSwap(startPoint, endPoint, point) ==
  IF Same(startPoint, point)
  THEN PointsResult(startPoint, endPoint, FALSE, FALSE)
  ELSE PointsResult(point, endPoint, checkAndBuildRoute(point, endPoint), TRUE)

\* setStartPoint(point) on the points (startPoint, endPoint)
setStartPointResult(startPoint, endPoint, point) ==
  IF Same(startPoint, point)
  THEN PointsResult(startPoint, endPoint, FALSE, FALSE)
  ELSE IF point # NullPoint /\ point = endPoint
       THEN IF startPoint = NullPoint
            THEN PointsResult(startPoint, endPoint, FALSE, FALSE)
            ELSE PointsResult(point, startPoint, checkAndBuildRoute(point, startPoint), TRUE)
       ELSE PointsResult(point, endPoint, checkAndBuildRoute(point, endPoint), TRUE)

\* setStartFromMyPosition() on the points (startPoint, endPoint)
setStartFromMyPositionResult(startPoint, endPoint, my) ==
  IF my = NullPoint
  THEN PointsResult(startPoint, endPoint, FALSE, FALSE)
  ELSE setStartPointResult(startPoint, endPoint, my)

\* setEndPoint(point) on the points (startPoint, endPoint)
setEndPointResult(startPoint, endPoint, point, my) ==
  IF Same(endPoint, point)
  THEN IF startPoint = NullPoint
       THEN setStartFromMyPositionResult(startPoint, endPoint, my)
       ELSE PointsResult(startPoint, endPoint, FALSE, FALSE)
  ELSE IF point # NullPoint /\ point = startPoint /\ endPoint = NullPoint
       THEN PointsResult(startPoint, endPoint, FALSE, FALSE)
       ELSE LET newStart == IF point # NullPoint /\ point = startPoint
                            THEN endPoint ELSE startPoint
            IN IF newStart = NullPoint
               THEN setStartFromMyPositionResult(newStart, point, my)
               ELSE PointsResult(newStart, point, checkAndBuildRoute(newStart, point), TRUE)

\* a point setter applies its result to the controller
ApplyPointsResult(op, res) ==
  /\ lastCall' = Call(op, IF res.returns THEN "true" ELSE "false")
  /\ mStartPoint' = res.mStartPoint
  /\ mEndPoint' = res.mEndPoint
  /\ UNCHANGED <<mState, mContainer, mStartButton, mLastRouterType, uiQueue,
                 succeededBuild>>
  /\ IF res.builds THEN build ELSE NoBuild
  /\ UNCHANGED <<engineVars, adapterVars>>

setStartPoint(point) ==
  ApplyPointsResult("setStartPoint", setStartPointResult(mStartPoint, mEndPoint, point))

setEndPoint(point, my) ==
  ApplyPointsResult("setEndPoint", setEndPointResult(mStartPoint, mEndPoint, point, my))

\* setRouterType(router)
setRouterType(router) ==
  /\ lastCall' = Call("other", "void")
  /\ router # mLastRouterType
  /\ mLastRouterType' = router
  /\ UNCHANGED <<mState, mStartPoint, mEndPoint, mContainer, mStartButton, uiQueue,
                 succeededBuild>>
  /\ IF mStartPoint # NullPoint /\ mEndPoint # NullPoint THEN build ELSE NoBuild
  /\ UNCHANGED <<engineVars, adapterVars>>

\* attach(container); on an attached controller it throws and changes nothing
attach(container) ==
  /\ lastCall' = Call("attach", IF mContainer # NoContainer THEN "throws" ELSE "void")
  /\ IF mContainer # NoContainer
     THEN UNCHANGED <<mContainer, buttonEnabled>>
     ELSE /\ mContainer' = container
          /\ buttonEnabled' =
               updateStartButton(mStartButton, buttonEnabled, mState, mBuildState)
  /\ UNCHANGED <<mState, mBuildState, mStartPoint, mEndPoint, mStartButton,
                 mLastBuildProgress, mLastRouterType, uiQueue, nativeBuild, buildSeq,
                 validBuild, succeededBuild,
                 nullBuild>>
  /\ UNCHANGED <<engineVars, adapterVars>>

\* detach()
detach ==
  /\ lastCall' = Call("other", "void")
  /\ mContainer' = NoContainer
  /\ mStartButton' = FALSE
  /\ UNCHANGED <<mState, mBuildState, mStartPoint, mEndPoint, buttonEnabled,
                 mLastBuildProgress, mLastRouterType, uiQueue, nativeBuild, buildSeq,
                 validBuild, succeededBuild,
                 nullBuild>>
  /\ UNCHANGED <<engineVars, adapterVars>>

\* setStartButton(button)
setStartButton ==
  /\ lastCall' = Call("other", "void")
  /\ mStartButton' = TRUE
  /\ buttonEnabled' = updateStartButton(TRUE, buttonEnabled, mState, mBuildState)
  /\ UNCHANGED <<mState, mBuildState, mStartPoint, mEndPoint, mContainer,
                 mLastBuildProgress, mLastRouterType, uiQueue, nativeBuild, buildSeq,
                 validBuild, succeededBuild,
                 nullBuild>>
  /\ UNCHANGED <<engineVars, adapterVars>>

\* the native router finishes the build it is working on and calls
\* mRoutingListener.onRoutingEvent(resultCode, ...), which posts the runnable
onRoutingEvent(resultCode) ==
  /\ lastCall' = Call("other", "void")
  /\ nativeBuild # 0
  /\ Len(uiQueue) < MaxQueue
  /\ uiQueue' = Post(uiQueue, resultCode, nativeBuild)
  /\ nativeBuild' = 0
  /\ UNCHANGED <<mState, mBuildState, mStartPoint, mEndPoint, mContainer, mStartButton,
                 buttonEnabled, mLastBuildProgress, mLastRouterType, buildSeq,
                 validBuild, succeededBuild,
                 nullBuild>>
  /\ UNCHANGED <<engineVars, adapterVars>>

\* the UI thread runs the oldest posted runnable of onRoutingEvent
RunRoutingEvent ==
  /\ lastCall' = Call("other", "void")
  /\ uiQueue # <<>>
  /\ uiQueue' = Tail(uiQueue)
  /\ LET event == Head(uiQueue) IN
     IF event.resultCode = "NO_ERROR"
     THEN /\ mBuildState' = "BUILT"
          /\ mLastBuildProgress' = 100
          /\ buttonEnabled' = updateStartButton(mStartButton, buttonEnabled, mState, "BUILT")
          /\ succeededBuild' = event.build
     ELSE IF mContainer = NoContainer
          THEN UNCHANGED <<mBuildState, mLastBuildProgress, buttonEnabled, succeededBuild>>
          ELSE /\ mBuildState' = "ERROR"
               /\ mLastBuildProgress' = 0
               /\ UNCHANGED <<buttonEnabled, succeededBuild>>
  /\ UNCHANGED <<mState, mStartPoint, mEndPoint, mContainer, mStartButton,
                 mLastRouterType, nativeBuild, buildSeq, validBuild,
                 nullBuild>>
  /\ UNCHANGED <<engineVars, adapterVars>>

NextController ==
  \/ \E endPoint \in Points \cup {NullPoint}, locationOn \in BOOLEAN,
        my \in MyPositions, bestRouter \in Routers :
          prepare(endPoint, locationOn, my, bestRouter)
  \/ start
  \/ cancel
  \/ \E point \in Points \cup {NullPoint} : setStartPoint(point)
  \/ \E point \in Points \cup {NullPoint}, my \in MyPositions : setEndPoint(point, my)
  \/ \E router \in Routers : setRouterType(router)
  \/ \E container \in Containers : attach(container)
  \/ detach
  \/ setStartButton
  \/ \E resultCode \in {"NO_ERROR", "ROUTE_NOT_FOUND"} : onRoutingEvent(resultCode)
  \/ RunRoutingEvent

SpecController == InitController /\ [][NextController]_vars

\* C20, as claimed: the build state is BUILT only if the most recently
\* requested build has not been cancelled since and is the build whose
\* NO_ERROR result was delivered.
C20_BuiltOnlyForLatestBuild ==
  mBuildState = "BUILT" => (validBuild # 0 /\ succeededBuild = validBuild)

\* C21: every build() that is started is started with both the start point
\* and the end point non-null.
C21_BuildsHaveBothPoints == ~nullBuild

\* builds have been started by more than one call, the last of them by a
\* point setter through checkAndBuildRoute
C21_Witness ==
  /\ buildSeq >= 2
  /\ lastCall = Call("setEndPoint", "true")
  /\ nativeBuild = buildSeq
  /\ mBuildState = "BUILDING"

\* C22, as claimed: whenever a start button is registered, its enabled flag
\* equals (state is PREPARE and build state is BUILT).
C22_ButtonFollowsState ==
  mStartButton => (buttonEnabled <=> (mState = "PREPARE" /\ mBuildState = "BUILT"))

\* both route points are set, to the same point
SamePoints(startPoint, endPoint) == startPoint # NullPoint /\ startPoint = endPoint

\* C23: a call of setStartPoint or setEndPoint made when the two route
\* points are not both set to the same point leaves them not both set to
\* the same point, whatever it returns.
C23_SettersKeepPointsDistinct ==
  [][ ( /\ lastCall'.op \in {"setStartPoint", "setEndPoint"}
        /\ ~SamePoints(mStartPoint, mEndPoint) )
      => ~SamePoints(mStartPoint', mEndPoint') ]_vars

\* setEndPoint has set the end point to the current position with no start
\* point set: the fallback to the current position was skipped, the call
\* returned false and the start point is still null
C23_Witness ==
  /\ lastCall = Call("setEndPoint", "false")
  /\ mStartPoint = NullPoint
  /\ mEndPoint \in MyPositions \ {NullPoint}

\* the fields of RoutingController and the flag of the button view
ControllerFields ==
  <<mState, mBuildState, mStartPoint, mEndPoint, mContainer, mStartButton,
    buttonEnabled, mLastBuildProgress, mLastRouterType>>

\* C24: cancel() returns true exactly when the controller was planning or
\* navigating and then leaves state NONE, build state NONE and both points
\* null; otherwise it returns false and changes no field. attach() on a
\* controller with a container throws and changes no field, the container
\* included.
C24_CancelAndAttachFrame ==
  [][ /\ lastCall'.op = "cancel" =>
           /\ lastCall'.returns = "true" <=> mState \in {"PREPARE", "NAVIGATION"}
           /\ lastCall'.returns = "true" =>
                /\ mState' = "NONE"
                /\ mBuildState' = "NONE"
                /\ mStartPoint' = NullPoint
                /\ mEndPoint' = NullPoint
           /\ lastCall'.returns = "false" => UNCHANGED ControllerFields
      /\ (lastCall'.op = "attach" /\ mContainer # NoContainer) =>
           /\ lastCall'.returns = "throws"
           /\ UNCHANGED ControllerFields ]_vars

\* attach() has thrown on an attached controller that an earlier cancel()
\* took from a requested build back to NONE with both points null
C24_Witness ==
  /\ lastCall = Call("attach", "throws")
  /\ mContainer # NoContainer
  /\ buildSeq >= 1
  /\ mState = "NONE"
  /\ mBuildState = "NONE"
  /\ mStartPoint = NullPoint
  /\ mEndPoint = NullPoint

====
